---- MODULE Spec2Model ----
(***************************************************************************)
(* Model of the ABN AMRO MCP tool adapters.                                *)
(*                                                                         *)
(*   calculateInterestRate, calculateMaximumMortgage   src/src/tools.ts    *)
(*   getPropertyTransferTax                            src/unnamed/part_000*)
(*   the schema registered for calculate-interest-rate src/src/index.ts    *)
(*                                                                         *)
(* JavaScript values are tagged records: [t |-> "number", v |-> 3], an     *)
(* object is [t |-> "object", v |-> f] with f a function from its own keys *)
(* to values, so that an absent key is a key outside DOMAIN f.  A string   *)
(* built by a template literal is kept as the sequence of its pieces.      *)
(* One invocation runs at a time; an await is a step boundary.             *)
(***************************************************************************)
EXTENDS Integers, Sequences, FiniteSets, TLC

VARIABLES
    pc,        \* position of the running invocation
    tool,      \* the function that was invoked
    args,      \* its raw argument
    request,   \* the destructured result of Schema.parse(args)
    url,       \* the URL object the handler builds
    sent,      \* the calls made to fetch, in order
    response,  \* the Response that fetch resolved with
    result,    \* the value the function returned
    thrown     \* the exception that left the function

vars == <<pc, tool, args, request, url, sent, response, result, thrown>>

(***************************************************************************)
(* Bounds of the model.                                                    *)
(***************************************************************************)
MaxDiscounts == 2
MaxPeriods == 2
MaxPriceOffset == 2
MaxDuration == 24

(***************************************************************************)
(* JavaScript values.                                                      *)
(***************************************************************************)
Undefined == [t |-> "undefined"]
Null == [t |-> "null"]
NaN == [t |-> "NaN"]
Num(n) == [t |-> "number", v |-> n]
Str(s) == [t |-> "string", v |-> s]
Bool(b) == [t |-> "boolean", v |-> b]
Arr(s) == [t |-> "array", v |-> s]
Obj(f) == [t |-> "object", v |-> f]
\* new Error(message); the message is kept as its pieces
Err(parts) == [t |-> "error", message |-> parts]
\* the number that the decimal n/d denotes, when it is not whole (3.2 is
\* Ratio(32, 10)): what a division of whole numbers gives
Ratio(n, d) == IF n % d = 0 THEN Num(n \div d) ELSE [t |-> "number", n |-> n, d |-> d]
\* a number of 1e21 or more: digits[1].digits[2..] * 10^e (1.5e22 is Exp10(<<1, 5>>, 22))
Exp10(digits, e) == [t |-> "number", digits |-> digits, e |-> e]
\* a template literal, kept as the sequence of its pieces
Template(parts) == [t |-> "string", parts |-> parts]
\* a handler local or a slot that holds nothing yet
None == Undefined

Has(o, k) == o.t = "object" /\ k \in DOMAIN o.v
\* o.k on an object: undefined when the key is absent
Get(o, k) == IF Has(o, k) THEN o.v[k] ELSE Undefined
\* o?.k
OptGet(o, k) == IF o.t \in {"undefined", "null"} THEN Undefined ELSE Get(o, k)

Truthy(x) ==
    CASE x.t \in {"undefined", "null", "NaN"} -> FALSE
      [] x.t = "boolean" -> x.v
      [] x.t = "number" -> IF "v" \in DOMAIN x THEN x.v # 0 ELSE TRUE
      [] x.t = "string" -> x.v # ""
      [] OTHER -> TRUE
\* x || y
JsOr(x, y) == IF Truthy(x) THEN x ELSE y

(***************************************************************************)
(* Number.prototype.toString.  A string that goes through URLSearchParams  *)
(* is a sequence of characters, so that its encoding can be computed.      *)
(***************************************************************************)
DigitChar == <<"0", "1", "2", "3", "4", "5", "6", "7", "8", "9">>

RECURSIVE NatToString(_)
NatToString(n) ==
    IF n < 10 THEN DigitChar[n + 1]
    ELSE NatToString(n \div 10) \o DigitChar[(n % 10) + 1]

RECURSIVE NatToChars(_)
NatToChars(n) ==
    IF n < 10 THEN <<DigitChar[n + 1]>>
    ELSE Append(NatToChars(n \div 10), DigitChar[(n % 10) + 1])

\* x.toString() of a whole number x, as characters: plain digits below
\* 1e21, from there on mantissa, "e+" and exponent
NumberToString(x) ==
    CASE "v" \in DOMAIN x ->
            IF x.v < 0 THEN <<"-">> \o NatToChars(0 - x.v) ELSE NatToChars(x.v)
      [] "e" \in DOMAIN x ->
            <<DigitChar[x.digits[1] + 1]>>
            \o (IF Len(x.digits) > 1
                THEN <<".">> \o [i \in 1..(Len(x.digits) - 1) |-> DigitChar[x.digits[i + 1] + 1]]
                ELSE << >>)
            \o <<"e", "+">> \o NatToChars(x.e)

(***************************************************************************)
(* JSON.stringify, as the document it writes: a key whose value is         *)
(* undefined is left out of an object, undefined and NaN become null in    *)
(* an array, NaN becomes null as a value.                                  *)
(***************************************************************************)
RECURSIVE JsonStringify(_)
JsonStringify(x) ==
    CASE x.t = "object" ->
            Obj([k \in {j \in DOMAIN x.v : x.v[j].t # "undefined"} |->
                    JsonStringify(x.v[k])])
      [] x.t = "array" ->
            Arr([i \in 1..Len(x.v) |->
                    IF x.v[i].t = "undefined" THEN Null ELSE JsonStringify(x.v[i])])
      [] x.t = "NaN" -> Null
      [] OTHER -> x

(***************************************************************************)
(* Zod schemas.  A parse yields [ok, value, issues]: the parsed value with *)
(* defaults applied and unknown keys stripped, or the paths of the issues  *)
(* that a ZodError carries.                                                *)
(***************************************************************************)
InterestRateProducts == {"BUDGET"}
InterestRateTypes == {"ANNUITAIR"}
SustainabilityLabels == {"B", "A_OR_HIGHER"}

\* z.enum(allowed)
EnumIssues(x, allowed, path) ==
    IF x.t = "string" /\ x.v \in allowed THEN << >> ELSE <<path>>

\* z.discriminatedUnion('type', [BANK_ACCOUNT, SUSTAINABILITY{label}])
DiscountOk(d) ==
    /\ d.t = "object"
    /\ Has(d, "type")
    /\ d.v["type"].t = "string"
    /\ \/ d.v["type"].v = "BANK_ACCOUNT"
       \/ /\ d.v["type"].v = "SUSTAINABILITY"
          /\ Has(d, "label")
          /\ d.v["label"].t = "string"
          /\ d.v["label"].v \in SustainabilityLabels

\* the parsed variant: z.object strips the keys its shape does not name
DiscountValue(d) ==
    IF d.v["type"].v = "BANK_ACCOUNT"
    THEN Obj([type |-> Str("BANK_ACCOUNT")])
    ELSE Obj([type |-> Str("SUSTAINABILITY"), label |-> d.v["label"]])

\* z.array(...).optional().default([])
DiscountsIssues(x) ==
    CASE x.t = "undefined" -> << >>
      [] x.t = "array" ->
            [i \in 1..Len(SelectSeq(x.v, LAMBDA d : ~DiscountOk(d))) |-> "discounts"]
      [] OTHER -> <<"discounts">>

DiscountsValue(x) ==
    IF x.t = "undefined" THEN Arr(<< >>)
    ELSE Arr([i \in 1..Len(x.v) |-> DiscountValue(x.v[i])])

\* z.boolean().optional().default(false)
InactiveIssues(x) ==
    IF x.t \in {"undefined", "boolean"} THEN << >> ELSE <<"inactive">>

InactiveValue(x) == IF x.t = "undefined" THEN Bool(FALSE) ELSE x

\* x >= 0 for a number x
AtLeastZero(x) ==
    CASE "v" \in DOMAIN x -> x.v >= 0
      [] "n" \in DOMAIN x -> x.n >= 0
      [] OTHER -> TRUE

\* z.number().min(0)
NumberMin0Issues(x, path) ==
    IF x.t = "number" /\ AtLeastZero(x) THEN << >> ELSE <<path>>

\* z.number().min(0).optional()
OptionalNumberMin0Issues(x, path) ==
    IF x.t = "undefined" THEN << >> ELSE NumberMin0Issues(x, path)

ParseOk(value) == [ok |-> TRUE, value |-> value, issues |-> << >>]
ParseFail(issues) == [ok |-> FALSE, value |-> Undefined, issues |-> issues]

\* error.message of the ZodError that Schema.parse throws
ZodError(issues) == Err(<<"ZodError">> \o issues)

InterestRateRequestSchema(a) ==
    IF a.t # "object" THEN ParseFail(<<"(root)">>)
    ELSE LET issues == EnumIssues(Get(a, "product"), InterestRateProducts, "product")
                       \o EnumIssues(Get(a, "type"), InterestRateTypes, "type")
                       \o DiscountsIssues(Get(a, "discounts"))
                       \o InactiveIssues(Get(a, "inactive"))
         IN IF issues # << >> THEN ParseFail(issues)
            ELSE ParseOk([product |-> Get(a, "product"),
                          type |-> Get(a, "type"),
                          discounts |-> DiscountsValue(Get(a, "discounts")),
                          inactive |-> InactiveValue(Get(a, "inactive"))])

MaximumMortgageRequestSchema(a) ==
    IF a.t # "object" THEN ParseFail(<<"(root)">>)
    ELSE LET issues == NumberMin0Issues(Get(a, "mainIncome"), "mainIncome")
                       \o OptionalNumberMin0Issues(Get(a, "partnerIncome"), "partnerIncome")
         IN IF issues # << >> THEN ParseFail(issues)
            ELSE ParseOk([mainIncome |-> Get(a, "mainIncome"),
                          partnerIncome |-> Get(a, "partnerIncome")])

HouseTaxQuotaRequestSchema(a) ==
    IF a.t # "object" THEN ParseFail(<<"(root)">>)
    ELSE LET issues == NumberMin0Issues(Get(a, "housePrice"), "housePrice")
         IN IF issues # << >> THEN ParseFail(issues)
            ELSE ParseOk([housePrice |-> Get(a, "housePrice")])

(***************************************************************************)
(* The input shape registered for the calculate-interest-rate tool: the    *)
(* protocol layer hands calculateInterestRate the calls this shape admits. *)
(***************************************************************************)
ToolProducts == {"BUDGET", "WONING"}
ToolTypes == {"ANNUITAIR", "LINEAIR", "AFLOSSINGSVRIJ"}

CalculateInterestRateToolAdmits(a) ==
    /\ a.t = "object"
    /\ EnumIssues(Get(a, "product"), ToolProducts, "product") = << >>
    /\ EnumIssues(Get(a, "type"), ToolTypes, "type") = << >>
    /\ DiscountsIssues(Get(a, "discounts")) = << >>
    /\ InactiveIssues(Get(a, "inactive")) = << >>

(***************************************************************************)
(* The envelope every tool returns: one text block holding a JSON          *)
(* document.                                                               *)
(***************************************************************************)
ToolResult(doc) == [content |-> << [type |-> "text", text |-> JsonStringify(doc)] >>]

\* error instanceof Error ? error.message : 'Unknown error'
ErrorMessage(e) == IF e.t = "error" THEN e.message ELSE <<"Unknown error">>

InterestRatePrefix == "Failed to calculate interest rate: "
MaximumMortgagePrefix == "Failed to calculate maximum mortgage: "

\* the catch block without the tool's prefix
CatchResultNoPrefix(prefix, e) ==
    ToolResult(Obj([success |-> Bool(FALSE),
                    error |-> Template(<<"Error: ">> \o ErrorMessage(e))]))

\* the catch block of a network-backed tool
CatchResult(prefix, e) ==
    ToolResult(Obj([success |-> Bool(FALSE),
                    error |-> Template(<<prefix>> \o ErrorMessage(e))]))

\* throw new Error(`ABN AMRO API error (${response.status}): ${errorText}`)
ApiError(status, errorText) ==
    Err(<<"ABN AMRO API error (", NatToString(status), "): ", errorText>>)

TypeError(what) == Err(<<"TypeError: ", what>>)

(***************************************************************************)
(* URL and URLSearchParams.                                                *)
(***************************************************************************)
InterestRateUrl ==
    "https://hypotheken.abnamro.nl/mortgage-customer-interest-rate-calculation/v1/interest-rates/calculate"
MaximumMortgageUrl ==
    "https://hypotheken.abnamro.nl/hypotheekorientatie/api/v1.0/snelle-hypotheek-berekening"

NewURL(href) == [href |-> href, searchParams |-> << >>]
\* url.searchParams.append(name, value)
SearchParamsAppend(u, name, value) ==
    [u EXCEPT !.searchParams = Append(@, <<name, value>>)]

\* the names and values the handlers append
InactiveParam == <<"i", "n", "a", "c", "t", "i", "v", "e">>
TrueValue == <<"t", "r", "u", "e">>
MainIncomeParam == <<"m", "a", "i", "n", "I", "n", "c", "o", "m", "e">>
PartnerIncomeParam ==
    <<"p", "a", "r", "t", "n", "e", "r", "I", "n", "c", "o", "m", "e">>

\* the characters the application/x-www-form-urlencoded serializer leaves as
\* they are
FormSafeChars ==
    {"a", "b", "c", "d", "e", "f", "g", "h", "i", "j", "k", "l", "m",
     "n", "o", "p", "q", "r", "s", "t", "u", "v", "w", "x", "y", "z",
     "A", "B", "C", "D", "E", "F", "G", "H", "I", "J", "K", "L", "M",
     "N", "O", "P", "Q", "R", "S", "T", "U", "V", "W", "X", "Y", "Z",
     "0", "1", "2", "3", "4", "5", "6", "7", "8", "9", "*", "-", ".", "_"}

\* a space becomes +, any other character its percent code
FormEncodeChar(c) ==
    CASE c \in FormSafeChars -> c
      [] c = " " -> "+"
      [] c = "+" -> "%2B"
      [] c = "%" -> "%25"
      [] c = "&" -> "%26"
      [] c = "=" -> "%3D"

RECURSIVE FormEncode(_)
FormEncode(chars) ==
    IF chars = << >> THEN ""
    ELSE FormEncodeChar(Head(chars)) \o FormEncode(Tail(chars))

RECURSIVE QueryString(_)
QueryString(params) ==
    IF params = << >> THEN ""
    ELSE LET last == params[Len(params)]
             init == SubSeq(params, 1, Len(params) - 1)
         IN (IF init = << >> THEN "" ELSE QueryString(init) \o "&")
            \o FormEncode(last[1]) \o "=" \o FormEncode(last[2])

\* url.toString()
UrlToString(u) ==
    IF u.searchParams = << >> THEN u.href
    ELSE u.href \o "?" \o QueryString(u.searchParams)

\* response.ok
ResponseOk(status) == status >= 200 /\ status <= 299
\* the Response that fetch resolves with
Response(status) == [t |-> "response", ok |-> ResponseOk(status), status |-> status]

(***************************************************************************)
(* calculateInterestRate: the mapping of a 2xx body.                       *)
(***************************************************************************)
Nullish(x) == x.t \in {"undefined", "null"}
\* x === 'literal'
IsString(x, literal) == x.t = "string" /\ "v" \in DOMAIN x /\ x.v = literal

\* Math.floor in place of Math.round
RoundTenthsOfYearsDown(months) == (10 * months) \div 12

\* Math.round(x / 12 * 10) for a whole x: halves go up
RoundTenthsOfYears(months) == (10 * months + 6) \div 12

\* Math.round(period.duration / 12 * 10) / 10
DurationInYears(duration) ==
    CASE duration.t = "number" -> Ratio(RoundTenthsOfYears(duration.v), 10)
      [] duration.t = "null" -> Num(0)
      [] duration.t = "undefined" -> NaN

\* period.rates?.find(r => r.type === 'NHG')?.value
DutchNationalMortgageGuarantee(rates) ==
    IF Nullish(rates) THEN Undefined
    ELSE LET hits == {i \in 1..Len(rates.v) : IsString(Get(rates.v[i], "type"), "NHG")}
         IN IF hits = {} THEN Undefined
            ELSE Get(rates.v[CHOOSE i \in hits : \A j \in hits : i <= j], "value")

\* period.rates?.filter(r => r.type === 'LTV').map(r => ({range: r.ltv, rate: r.value}))
LifeTimeValue(rates) ==
    IF Nullish(rates) THEN Undefined
    ELSE LET ltv == SelectSeq(rates.v, LAMBDA r : IsString(Get(r, "type"), "LTV"))
         IN Arr([i \in 1..Len(ltv) |->
                    Obj([range |-> Get(ltv[i], "ltv"), rate |-> Get(ltv[i], "value")])])

\* a TypeError while mapping one period: a null period, rates that is no
\* array, a null entry in rates
PeriodThrows(period) ==
    \/ Nullish(period)
    \/ LET rates == Get(period, "rates")
       IN /\ ~Nullish(rates)
          /\ \/ rates.t # "array"
             \/ \E i \in 1..Len(rates.v) : Nullish(rates.v[i])

MapPeriod(period) ==
    Obj([duration |-> Get(period, "duration"),
         durationInYears |-> DurationInYears(Get(period, "duration")),
         inactive |-> Get(period, "inactive"),
         type |-> Get(period, "type"),
         reflectionPeriod |-> Get(period, "reflectionPeriod"),
         rates |-> Obj([dutchNationalMortgageGuarantee |->
                            DutchNationalMortgageGuarantee(Get(period, "rates")),
                        lifeTimeValue |-> LifeTimeValue(Get(period, "rates"))])])

\* data.periods?.map(...) || []
MapPeriods(periods) ==
    IF Nullish(periods) THEN Arr(<< >>)
    ELSE Arr([i \in 1..Len(periods.v) |-> MapPeriod(periods.v[i])])

InterestRateMappingThrows(data) ==
    \/ Nullish(data)
    \/ LET periods == Get(data, "periods")
       IN /\ ~Nullish(periods)
          /\ \/ periods.t # "array"
             \/ \E i \in 1..Len(periods.v) : PeriodThrows(periods.v[i])

InterestRateRequestParameters(req) ==
    Obj([product |-> req.product, type |-> req.type,
         discounts |-> req.discounts, inactive |-> req.inactive])

InterestRateSuccess(data, req) ==
    ToolResult(Obj([success |-> Bool(TRUE),
        data |-> Obj([
            bridgingCredit |-> Obj([rate |-> Get(data, "overbruggingskrediet"),
                                    rateSheetDate |-> Get(data, "renteblad"),
                                    options |-> Get(data, "overbruggingskredieten")]),
            periods |-> MapPeriods(Get(data, "periods")),
            interestRate |-> Get(data, "interestRate"),
            effectiveRate |-> Get(data, "effectiveRate"),
            baseRate |-> Get(data, "baseRate"),
            appliedDiscounts |-> Get(data, "appliedDiscounts"),
            calculationDate |-> Get(data, "calculationDate"),
            requestParameters |-> InterestRateRequestParameters(req)])]))

\* the request body with the flag copied into it
InterestRateRequestBodyWithInactive(req) ==
    JsonStringify(Obj([product |-> req.product, type |-> req.type,
                       discounts |-> req.discounts, inactive |-> req.inactive]))

\* const requestBody = { product, type, discounts }; JSON.stringify(requestBody)
InterestRateRequestBody(req) ==
    JsonStringify(Obj([product |-> req.product, type |-> req.type,
                       discounts |-> req.discounts]))

\* the flag always written into the query
InterestRateRequestUrlAlwaysInactive(req) ==
    SearchParamsAppend(NewURL(InterestRateUrl), InactiveParam,
                       IF Truthy(req.inactive) THEN TrueValue
                       ELSE <<"f", "a", "l", "s", "e">>)

\* new URL(...); if (inactive) url.searchParams.append('inactive', 'true')
InterestRateRequestUrl(req) ==
    IF Truthy(req.inactive)
    THEN SearchParamsAppend(NewURL(InterestRateUrl), InactiveParam, TrueValue)
    ELSE NewURL(InterestRateUrl)

(***************************************************************************)
(* calculateMaximumMortgage: the request and the mapping of a 2xx body.    *)
(***************************************************************************)
\* partnerIncome tested for truthiness: if (partnerIncome)
MaximumMortgageRequestUrlTruthy(req) ==
    LET withMain == SearchParamsAppend(NewURL(MaximumMortgageUrl), MainIncomeParam,
                                       NumberToString(req.mainIncome))
    IN IF Truthy(req.partnerIncome)
       THEN SearchParamsAppend(withMain, PartnerIncomeParam,
                               NumberToString(req.partnerIncome))
       ELSE withMain

\* append mainIncome; if (partnerIncome !== undefined) append partnerIncome
MaximumMortgageRequestUrl(req) ==
    LET withMain == SearchParamsAppend(NewURL(MaximumMortgageUrl), MainIncomeParam,
                                       NumberToString(req.mainIncome))
    IN IF req.partnerIncome.t # "undefined"
       THEN SearchParamsAppend(withMain, PartnerIncomeParam,
                               NumberToString(req.partnerIncome))
       ELSE withMain

MaximumMortgageMappingThrows(data) == Nullish(data)

\* the echo with an absent partnerIncome turned into 0
MaximumMortgageRequestParametersZero(req) ==
    Obj([mainIncome |-> req.mainIncome,
         partnerIncome |-> IF req.partnerIncome.t = "undefined" THEN Num(0)
                           ELSE req.partnerIncome])

MaximumMortgageRequestParameters(req) ==
    Obj([mainIncome |-> req.mainIncome, partnerIncome |-> req.partnerIncome])

MaximumMortgageSuccess(data, req) ==
    ToolResult(Obj([success |-> Bool(TRUE),
        data |-> Obj([
            maximumMortgage |-> JsOr(OptGet(Get(data, "value"), "maximumMortgage"), Null),
            monthlyPayment |-> JsOr(OptGet(Get(data, "value"), "monthlyPayment"), Null),
            interest |-> JsOr(OptGet(Get(data, "value"), "interest"), Null),
            messages |-> Get(data, "messages"),
            requestParameters |-> MaximumMortgageRequestParameters(req)])]))

(***************************************************************************)
(* getPropertyTransferTax.                                                 *)
(***************************************************************************)
MaxTransferTaxPremiumCap == 525000
\* TransferTaxRate = 0.02, in hundredths
TransferTaxRateHundredths == 2

(***************************************************************************)
(* The arithmetic of doubles.  In a product or a quotient a whole number   *)
(* is the sequence of its digits in base 2^15, the lowest first, so that   *)
(* the product of two digits is within the integers at hand.  A number     *)
(* that is not whole is [t |-> "number", bits |-> m, exp |-> e], which     *)
(* stands for m * 2^e, where m is a sequence of bits, the lowest first and *)
(* equal to 1, and e < 0.                                                  *)
(***************************************************************************)
Lowest(S) == CHOOSE x \in S : \A y \in S : x <= y
Highest(S) == CHOOSE x \in S : \A y \in S : x >= y

RECURSIVE Limbs(_)
Limbs(n) == IF n = 0 THEN << >> ELSE <<n % 32768>> \o Limbs(n \div 32768)

RECURSIVE BitsNat(_)
BitsNat(b) == IF b = << >> THEN 0 ELSE Head(b) + 2 * BitsNat(Tail(b))

BitsLimbs(b) ==
    [j \in 1..((Len(b) + 14) \div 15) |->
        BitsNat(SubSeq(b, 15 * (j - 1) + 1,
                       IF 15 * j < Len(b) THEN 15 * j ELSE Len(b)))]

\* bit i of a, the lowest being bit 1
Bit(a, i) == (a[((i - 1) \div 15) + 1] \div 2 ^ ((i - 1) % 15)) % 2

\* the number of bits of a
BitLen(a) ==
    LET ones == {i \in 1..(15 * Len(a)) : Bit(a, i) = 1}
    IN IF ones = {} THEN 0 ELSE Highest(ones)

RECURSIVE AddLimbs(_, _, _)
AddLimbs(a, b, carry) ==
    IF a = << >> /\ b = << >> THEN Limbs(carry)
    ELSE LET x == IF a = << >> THEN 0 ELSE Head(a)
             y == IF b = << >> THEN 0 ELSE Head(b)
             sum == x + y + carry
         IN <<sum % 32768>> \o AddLimbs(IF a = << >> THEN a ELSE Tail(a),
                                        IF b = << >> THEN b ELSE Tail(b),
                                        sum \div 32768)

\* a * k + carry for one digit k
RECURSIVE MulLimb(_, _, _)
MulLimb(a, k, carry) ==
    IF a = << >> THEN Limbs(carry)
    ELSE LET cur == Head(a) * k + carry
         IN <<cur % 32768>> \o MulLimb(Tail(a), k, cur \div 32768)

RECURSIVE MulLimbs(_, _)
MulLimbs(a, b) ==
    IF a = << >> THEN << >>
    ELSE AddLimbs(MulLimb(b, Head(a), 0), <<0>> \o MulLimbs(Tail(a), b), 0)

\* quotient and remainder of a by a small d, the highest digit first
RECURSIVE DivLimbs(_, _)
DivLimbs(a, d) ==
    IF a = << >> THEN [q |-> << >>, r |-> 0]
    ELSE LET high == DivLimbs(Tail(a), d)
             cur == 32768 * high.r + Head(a)
         IN [q |-> <<cur \div d>> \o high.q, r |-> cur % d]

\* m * 2^exp as a number, for a sequence of bits m
Double(m, exp) ==
    LET ones == {i \in DOMAIN m : m[i] = 1}
    IN IF ones = {} THEN Num(0)
       ELSE LET odd == SubSeq(m, Lowest(ones), Len(m))
                e == exp + Lowest(ones) - 1
            IN IF e >= 0 THEN Num(BitsNat(odd) * 2 ^ e)
               ELSE [t |-> "number", bits |-> odd, exp |-> e]

\* m + 1 for a sequence of bits m
Increment(m) ==
    LET zeros == {i \in DOMAIN m : m[i] = 0}
    IN IF zeros = {} THEN [i \in 1..(Len(m) + 1) |-> IF i > Len(m) THEN 1 ELSE 0]
       ELSE [i \in DOMAIN m |->
                CASE i < Lowest(zeros) -> 0
                  [] i = Lowest(zeros) -> 1
                  [] OTHER -> m[i]]

\* the double nearest to a * 2^exp, or to a little more than it when inexact
\* says that something was cut off below a: the 53 highest bits, rounded to
\* nearest, a tie to even
RoundToDouble(a, inexact, exp) ==
    LET cut == BitLen(a) - 53
    IN IF cut <= 0 THEN Double([i \in 1..BitLen(a) |-> Bit(a, i)], exp)
       ELSE LET kept == [i \in 1..53 |-> Bit(a, cut + i)]
                half == Bit(a, cut) = 1
                more == inexact \/ \E i \in 1..(cut - 1) : Bit(a, i) = 1
                up == half /\ (more \/ kept[1] = 1)
            IN Double(IF up THEN Increment(kept) ELSE kept, exp + cut)

\* the double a decimal literal n/d denotes
NearestDouble(n, d) ==
    LET division == DivLimbs([i \in 1..5 |-> 0] \o Limbs(n), d)
    IN RoundToDouble(division.q, division.r # 0, 0 - 75)

\* x * y for a whole x and a y that is not whole
NumberTimes(x, y) ==
    RoundToDouble(MulLimbs(Limbs(x.v), BitsLimbs(y.bits)), FALSE, y.exp)

TransferTaxRate == NearestDouble(TransferTaxRateHundredths, 100)

\* the cap itself taxed: >= in place of >
TaxQuotaFromCap(housePrice) ==
    IF housePrice.v >= MaxTransferTaxPremiumCap
    THEN NumberTimes(housePrice, TransferTaxRate)
    ELSE Num(0)

TaxQuota(housePrice) ==
    IF housePrice.v > MaxTransferTaxPremiumCap
    THEN NumberTimes(housePrice, TransferTaxRate)
    ELSE Num(0)

PropertyTransferTaxSuccess(req) ==
    ToolResult(Obj([success |-> Bool(TRUE),
        data |-> Obj([
            taxQuota |-> TaxQuota(req.housePrice),
            description |-> Str("Dutch property transfer tax for 2025: 2% of the purchase price for properties above €525,000")])]))

(***************************************************************************)
(* The inputs: what a caller passes and what the upstream answers.         *)
(***************************************************************************)
\* the object whose keys are the fields of r that are not undefined
ObjOf(r) == Obj([k \in {j \in DOMAIN r : r[j].t # "undefined"} |-> r[k]])

RECURSIVE SeqsUpTo(_, _)
SeqsUpTo(S, n) ==
    IF n = 0 THEN {<< >>}
    ELSE SeqsUpTo(S, n - 1) \cup {Append(q, x) : q \in SeqsUpTo(S, n - 1), x \in S}

RawProducts == {Undefined, Str("BUDGET"), Str("WONING"), Str("SPAAR"), Num(1)}
RawTypes == {Undefined, Str("ANNUITAIR"), Str("LINEAIR"), Str("AFLOSSINGSVRIJ"), Str("BULLET")}
RawDiscountItems ==
    {Obj([type |-> Str("BANK_ACCOUNT")]),
     Obj([type |-> Str("BANK_ACCOUNT"), label |-> Str("B")]),
     Obj([type |-> Str("SUSTAINABILITY"), label |-> Str("A_OR_HIGHER")]),
     Obj([type |-> Str("SUSTAINABILITY")]),
     Obj([type |-> Str("STAFF")])}
RawDiscounts ==
    {Undefined, Str("none")} \cup {Arr(q) : q \in SeqsUpTo(RawDiscountItems, MaxDiscounts)}
RawInactive == {Undefined, Bool(TRUE), Bool(FALSE), Str("yes")}

InterestRateArgs ==
    {Undefined} \cup
    {ObjOf([product |-> p, type |-> ty, discounts |-> d, inactive |-> i]) :
        p \in RawProducts, ty \in RawTypes, d \in RawDiscounts, i \in RawInactive}

RawMainIncome ==
    {Undefined, Str("50000"), Num(-1), Num(0), Num(50000), Exp10(<<1>>, 21)}
RawPartnerIncome ==
    {Undefined, Str("30000"), Num(-1), Num(0), Num(30000), Exp10(<<1, 5>>, 22)}

MaximumMortgageArgs ==
    {Undefined} \cup
    {ObjOf([mainIncome |-> m, partnerIncome |-> p]) :
        m \in RawMainIncome, p \in RawPartnerIncome}

\* whole prices around the cap in steps of 50, of which 2% is whole, and
\* prices of which 2% is not
HousePrices ==
    {0, 50, 600000, 525001, 525015, 525025, 525040}
    \cup {MaxTransferTaxPremiumCap + 50 * d : d \in (0 - MaxPriceOffset)..MaxPriceOffset}

PropertyTransferTaxArgs ==
    {Undefined, Obj(<< >>), Obj([housePrice |-> Str("600000")]), Obj([housePrice |-> Num(-50)])}
    \cup {Obj([housePrice |-> Num(h)]) : h \in HousePrices}

Statuses == {200, 201, 404, 500}
ErrorTexts == {"", "Not Found"}
\* what a rejected fetch, text() or json() is rejected with
Rejections == {Err(<<"fetch failed">>), Str("boom")}
JsonRejections == {Err(<<"Unexpected token < in JSON at position 0">>)}

SampleRates ==
    Arr(<<Obj([type |-> Str("NHG"), value |-> Ratio(32, 10)]),
          Obj([type |-> Str("LTV"), ltv |-> Str("80-90%"), value |-> Ratio(35, 10)]),
          Obj([type |-> Str("NHG"), value |-> Ratio(33, 10)]),
          Obj([type |-> Str("LTV"), ltv |-> Str("90-100%"), value |-> Ratio(38, 10)])>>)

SamplePeriod(duration, rates) ==
    ObjOf([duration |-> duration, inactive |-> Bool(FALSE), type |-> Str("VAST"),
           reflectionPeriod |-> Num(14), rates |-> rates])

SamplePeriods ==
    {Null,
     SamplePeriod(Undefined, Undefined),
     SamplePeriod(Num(3), Str("n/a")),
     SamplePeriod(Num(120), SampleRates),
     SamplePeriod(Num(125), Arr(<< >>))}

InterestRateBodies ==
    {Null, Num(5), Obj(<< >>), Obj([periods |-> Str("none")])}
    \cup {Obj([overbruggingskrediet |-> Ratio(35, 10),
               renteblad |-> Str("2024-01-15"),
               overbruggingskredieten |-> Arr(<< >>),
               periods |-> Arr(q),
               interestRate |-> Ratio(32, 10),
               calculationDate |-> Str("2024-01-15T10:00:00Z")]) :
            q \in SeqsUpTo(SamplePeriods, MaxPeriods)}
    \cup {Obj([periods |-> Arr(<<SamplePeriod(Num(months), Undefined)>>)]) :
            months \in 0..MaxDuration}

MaximumMortgageBodies ==
    {Null, Obj(<< >>), Obj([value |-> Null])}
    \cup {Obj([value |-> ObjOf([maximumMortgage |-> m, monthlyPayment |-> p, interest |-> i]),
               messages |-> Arr(<<Str("Calculation completed successfully")>>)]) :
            m \in {Undefined, Num(0), Num(280000)},
            p \in {Undefined, Num(0), Num(1250)},
            i \in {Undefined, Num(0), Ratio(35, 10)}}

(***************************************************************************)
(* The state machine.  No invocation shares state with another: once the   *)
(* caller holds the outcome the locals of the call are gone.               *)
(***************************************************************************)
Init ==
    /\ pc = "idle"
    /\ tool = "none"
    /\ args = None
    /\ request = None
    /\ url = None
    /\ sent = << >>
    /\ response = None
    /\ result = None
    /\ thrown = None

Callable == pc = "idle"

\* the caller has taken the returned envelope or the exception
CallerReceives ==
    /\ pc \in {"returned", "thrown"}
    /\ pc' = "idle"
    /\ tool' = "none"
    /\ args' = None
    /\ request' = None
    /\ url' = None
    /\ sent' = << >>
    /\ response' = None
    /\ result' = None
    /\ thrown' = None

\* return from the catch block
ReturnCaught(prefix, e) ==
    /\ pc' = "returned"
    /\ result' = CatchResult(prefix, e)
    /\ thrown' = None

\* the request handed to fetch before the argument is parsed
CalculateInterestRateFetchFirst(a) ==
    /\ Callable
    /\ tool' = "calculateInterestRate"
    /\ args' = a
    /\ response' = None
    /\ LET parsed == InterestRateRequestSchema(a)
       IN IF ~parsed.ok
          THEN /\ ReturnCaught(InterestRatePrefix, ZodError(parsed.issues))
               /\ request' = None
               /\ url' = NewURL(InterestRateUrl)
               /\ sent' = << [url |-> InterestRateUrl,
                              method |-> "POST",
                              headers |-> [ContentType |-> "application/json"],
                              body |-> JsonStringify(a)] >>
          ELSE /\ request' = parsed.value
               /\ url' = InterestRateRequestUrl(parsed.value)
               /\ sent' = << [url |-> UrlToString(InterestRateRequestUrl(parsed.value)),
                              method |-> "POST",
                              headers |-> [ContentType |-> "application/json"],
                              body |-> InterestRateRequestBody(parsed.value)] >>
               /\ pc' = "fetch"
               /\ result' = None
               /\ thrown' = None

\* calculateInterestRate up to its first await: parse, build, fetch
CalculateInterestRate(a) ==
    /\ Callable
    /\ tool' = "calculateInterestRate"
    /\ args' = a
    /\ response' = None
    /\ LET parsed == InterestRateRequestSchema(a)
       IN IF ~parsed.ok
          THEN /\ ReturnCaught(InterestRatePrefix, ZodError(parsed.issues))
               /\ request' = None
               /\ url' = None
               /\ sent' = << >>
          ELSE /\ request' = parsed.value
               /\ url' = InterestRateRequestUrl(parsed.value)
               /\ sent' = << [url |-> UrlToString(InterestRateRequestUrl(parsed.value)),
                              method |-> "POST",
                              headers |-> [ContentType |-> "application/json"],
                              body |-> InterestRateRequestBody(parsed.value)] >>
               /\ pc' = "fetch"
               /\ result' = None
               /\ thrown' = None

\* fetch resolved: a 2xx goes on to response.json(), the rest to response.text()
InterestRateFetchResolved(status) ==
    /\ pc = "fetch" /\ tool = "calculateInterestRate"
    /\ response' = Response(status)
    /\ pc' = IF ResponseOk(status) THEN "json" ELSE "text"
    /\ UNCHANGED <<tool, args, request, url, sent, result, thrown>>

InterestRateFetchRejected(e) ==
    /\ pc = "fetch" /\ tool = "calculateInterestRate"
    /\ ReturnCaught(InterestRatePrefix, e)
    /\ UNCHANGED <<tool, args, request, url, sent, response>>

\* response.text() resolved: the API error is thrown and caught
InterestRateTextResolved(errorText) ==
    /\ pc = "text" /\ tool = "calculateInterestRate"
    /\ ReturnCaught(InterestRatePrefix, ApiError(response.status, errorText))
    /\ UNCHANGED <<tool, args, request, url, sent, response>>

InterestRateTextRejected(e) ==
    /\ pc = "text" /\ tool = "calculateInterestRate"
    /\ ReturnCaught(InterestRatePrefix, e)
    /\ UNCHANGED <<tool, args, request, url, sent, response>>

\* response.json() resolved: the body is mapped into the success envelope
InterestRateJsonResolved(data) ==
    /\ pc = "json" /\ tool = "calculateInterestRate"
    /\ IF InterestRateMappingThrows(data)
       THEN ReturnCaught(InterestRatePrefix, TypeError("Cannot read properties"))
       ELSE /\ pc' = "returned"
            /\ result' = InterestRateSuccess(data, request)
            /\ thrown' = None
    /\ UNCHANGED <<tool, args, request, url, sent, response>>

InterestRateJsonRejected(e) ==
    /\ pc = "json" /\ tool = "calculateInterestRate"
    /\ ReturnCaught(InterestRatePrefix, e)
    /\ UNCHANGED <<tool, args, request, url, sent, response>>

\* calculateMaximumMortgage up to its first await
CalculateMaximumMortgage(a) ==
    /\ Callable
    /\ tool' = "calculateMaximumMortgage"
    /\ args' = a
    /\ response' = None
    /\ LET parsed == MaximumMortgageRequestSchema(a)
       IN IF ~parsed.ok
          THEN /\ ReturnCaught(MaximumMortgagePrefix, ZodError(parsed.issues))
               /\ request' = None
               /\ url' = None
               /\ sent' = << >>
          ELSE /\ request' = parsed.value
               /\ url' = MaximumMortgageRequestUrl(parsed.value)
               /\ sent' = << [url |-> UrlToString(MaximumMortgageRequestUrl(parsed.value)),
                              method |-> "GET",
                              headers |-> [Accept |-> "application/json"]] >>
               /\ pc' = "fetch"
               /\ result' = None
               /\ thrown' = None

MaximumMortgageFetchResolved(status) ==
    /\ pc = "fetch" /\ tool = "calculateMaximumMortgage"
    /\ response' = Response(status)
    /\ pc' = IF ResponseOk(status) THEN "json" ELSE "text"
    /\ UNCHANGED <<tool, args, request, url, sent, result, thrown>>

MaximumMortgageFetchRejected(e) ==
    /\ pc = "fetch" /\ tool = "calculateMaximumMortgage"
    /\ ReturnCaught(MaximumMortgagePrefix, e)
    /\ UNCHANGED <<tool, args, request, url, sent, response>>

MaximumMortgageTextResolved(errorText) ==
    /\ pc = "text" /\ tool = "calculateMaximumMortgage"
    /\ ReturnCaught(MaximumMortgagePrefix, ApiError(response.status, errorText))
    /\ UNCHANGED <<tool, args, request, url, sent, response>>

MaximumMortgageTextRejected(e) ==
    /\ pc = "text" /\ tool = "calculateMaximumMortgage"
    /\ ReturnCaught(MaximumMortgagePrefix, e)
    /\ UNCHANGED <<tool, args, request, url, sent, response>>

MaximumMortgageJsonResolved(data) ==
    /\ pc = "json" /\ tool = "calculateMaximumMortgage"
    /\ IF MaximumMortgageMappingThrows(data)
       THEN ReturnCaught(MaximumMortgagePrefix, TypeError("Cannot read properties"))
       ELSE /\ pc' = "returned"
            /\ result' = MaximumMortgageSuccess(data, request)
            /\ thrown' = None
    /\ UNCHANGED <<tool, args, request, url, sent, response>>

MaximumMortgageJsonRejected(e) ==
    /\ pc = "json" /\ tool = "calculateMaximumMortgage"
    /\ ReturnCaught(MaximumMortgagePrefix, e)
    /\ UNCHANGED <<tool, args, request, url, sent, response>>

\* getPropertyTransferTax: synchronous, with no try around the parse
GetPropertyTransferTax(a) ==
    /\ Callable
    /\ tool' = "getPropertyTransferTax"
    /\ args' = a
    /\ url' = None
    /\ sent' = << >>
    /\ response' = None
    /\ LET parsed == HouseTaxQuotaRequestSchema(a)
       IN IF ~parsed.ok
          THEN /\ pc' = "thrown"
               /\ thrown' = ZodError(parsed.issues)
               /\ result' = None
               /\ request' = None
          ELSE /\ pc' = "returned"
               /\ request' = parsed.value
               /\ result' = PropertyTransferTaxSuccess(parsed.value)
               /\ thrown' = None

Next ==
    \/ \E a \in InterestRateArgs : CalculateInterestRate(a)
    \/ \E status \in Statuses : InterestRateFetchResolved(status)
    \/ \E e \in Rejections : InterestRateFetchRejected(e)
    \/ \E errorText \in ErrorTexts : InterestRateTextResolved(errorText)
    \/ \E e \in Rejections : InterestRateTextRejected(e)
    \/ \E data \in InterestRateBodies : InterestRateJsonResolved(data)
    \/ \E e \in JsonRejections : InterestRateJsonRejected(e)
    \/ \E a \in MaximumMortgageArgs : CalculateMaximumMortgage(a)
    \/ \E status \in Statuses : MaximumMortgageFetchResolved(status)
    \/ \E e \in Rejections : MaximumMortgageFetchRejected(e)
    \/ \E errorText \in ErrorTexts : MaximumMortgageTextResolved(errorText)
    \/ \E e \in Rejections : MaximumMortgageTextRejected(e)
    \/ \E data \in MaximumMortgageBodies : MaximumMortgageJsonResolved(data)
    \/ \E e \in JsonRejections : MaximumMortgageJsonRejected(e)
    \/ \E a \in PropertyTransferTaxArgs : GetPropertyTransferTax(a)
    \/ CallerReceives

Spec == Init /\ [][Next]_vars

(***************************************************************************)
(* Reading the outcome of an invocation.                                   *)
(***************************************************************************)
NetworkTools == {"calculateInterestRate", "calculateMaximumMortgage"}

Prefix(f) ==
    IF f = "calculateInterestRate" THEN InterestRatePrefix ELSE MaximumMortgagePrefix

\* one text block holding a document with a boolean success
IsEnvelope(r) ==
    /\ "content" \in DOMAIN r
    /\ Len(r.content) = 1
    /\ r.content[1].type = "text"
    /\ Has(r.content[1].text, "success")
    /\ r.content[1].text.v["success"].t = "boolean"

Document(r) == r.content[1].text
Succeeded(r) == IsEnvelope(r) /\ Document(r).v["success"].v
\* success:false, an error string and no data
IsFailure(r) ==
    /\ IsEnvelope(r)
    /\ ~Document(r).v["success"].v
    /\ DOMAIN Document(r).v = {"success", "error"}
    /\ Document(r).v["error"].t = "string"
ErrorParts(r) == Document(r).v["error"].parts
IsFailureWithPrefix(r, prefix) ==
    IsFailure(r) /\ Len(ErrorParts(r)) >= 2 /\ ErrorParts(r)[1] = prefix

\* the validator of the running tool accepts the caller's argument
Validated ==
    CASE tool = "calculateInterestRate" -> InterestRateRequestSchema(args).ok
      [] tool = "calculateMaximumMortgage" -> MaximumMortgageRequestSchema(args).ok
      [] tool = "getPropertyTransferTax" -> HouseTaxQuotaRequestSchema(args).ok
      [] OTHER -> FALSE

(***************************************************************************)
(* C1.  calculateInterestRate and calculateMaximumMortgage never let an    *)
(* exception out: whatever the input and whatever the upstream does, a     *)
(* call that ends has returned one envelope, and every step that fails     *)
(* (validation, fetch, reading the error text, a non-2xx answer, reading   *)
(* or mapping the JSON body) ends the call with success=false and an error *)
(* that starts with the tool's prefix.                                     *)
(***************************************************************************)
C1_FailingStep ==
    \/ \E a \in InterestRateArgs :
          CalculateInterestRate(a) /\ ~InterestRateRequestSchema(a).ok
    \/ \E a \in MaximumMortgageArgs :
          CalculateMaximumMortgage(a) /\ ~MaximumMortgageRequestSchema(a).ok
    \/ \E e \in Rejections :
          \/ InterestRateFetchRejected(e) \/ MaximumMortgageFetchRejected(e)
          \/ InterestRateTextRejected(e) \/ MaximumMortgageTextRejected(e)
    \/ \E errorText \in ErrorTexts :
          InterestRateTextResolved(errorText) \/ MaximumMortgageTextResolved(errorText)
    \/ \E e \in JsonRejections :
          InterestRateJsonRejected(e) \/ MaximumMortgageJsonRejected(e)
    \/ \E data \in InterestRateBodies :
          InterestRateJsonResolved(data) /\ InterestRateMappingThrows(data)
    \/ \E data \in MaximumMortgageBodies :
          MaximumMortgageJsonResolved(data) /\ MaximumMortgageMappingThrows(data)

C1_NoExceptionEscapes ==
    [][tool' \in NetworkTools =>
          /\ pc' # "thrown"
          /\ thrown'.t = "undefined"
          /\ pc' = "returned" => IsEnvelope(result')
          /\ pc' # "returned" => result'.t = "undefined"
          /\ C1_FailingStep =>
                pc' = "returned" /\ IsFailureWithPrefix(result', Prefix(tool'))]_vars

\* a 2xx answer whose body could not be turned into a result
C1_Witness ==
    /\ tool = "calculateMaximumMortgage"
    /\ pc = "returned"
    /\ response.t # "undefined"
    /\ response.ok
    /\ IsFailureWithPrefix(result, MaximumMortgagePrefix)

(***************************************************************************)
(* C2.  In both network-backed tools validation comes before any network   *)
(* I/O: a request has been handed to fetch only if the argument passed the *)
(* schema, and a call whose argument fails it sends nothing and returns a  *)
(* success=false envelope.                                                 *)
(***************************************************************************)
C2_ValidationBeforeNetwork ==
    tool \in NetworkTools =>
        /\ sent # << >> => Validated /\ Len(sent) = 1
        /\ ~Validated => sent = << >> /\ pc = "returned" /\ IsFailure(result)

C2_Witness ==
    /\ tool = "calculateInterestRate"
    /\ Has(args, "product")
    /\ ~Validated
    /\ pc = "returned"
    /\ sent = << >>

(***************************************************************************)
(* C3.  Whenever the upstream answer is non-2xx the returned envelope has  *)
(* success=false, no data, and an error that embeds the status code and    *)
(* the body text.                                                          *)
(***************************************************************************)
C3_NonOkEmbedsStatusAndBody ==
    (/\ tool \in NetworkTools
     /\ pc = "returned"
     /\ response.t # "undefined"
     /\ ~response.ok)
    => /\ IsFailureWithPrefix(result, Prefix(tool))
       /\ \E errorText \in ErrorTexts :
             ErrorParts(result) =
                <<Prefix(tool), "ABN AMRO API error (", NatToString(response.status),
                  "): ", errorText>>

(***************************************************************************)
(* C4.  Every call the registered calculate-interest-rate shape admits     *)
(* (product BUDGET or WONING, type ANNUITAIR, LINEAIR or AFLOSSINGSVRIJ,   *)
(* well-formed discounts) passes the validator of calculateInterestRate    *)
(* and goes on to the upstream request; a product or type outside the      *)
(* sets is rejected without one.                                           *)
(***************************************************************************)
C4_ValidatorAcceptsRegisteredEnums ==
    tool = "calculateInterestRate" =>
        IF CalculateInterestRateToolAdmits(args)
        THEN Len(sent) = 1
        ELSE sent = << >> /\ pc = "returned" /\ IsFailure(result)

(***************************************************************************)
(* C5.  The body of the upstream POST has exactly the three fields         *)
(* product, type and discounts of the validated request; inactive is never *)
(* in it, whatever its value.                                              *)
(***************************************************************************)
C5_BodyHasExactlyThreeFields ==
    (tool = "calculateInterestRate" /\ sent # << >>) =>
        LET body == sent[1].body
        IN /\ sent[1].method = "POST"
           /\ body.t = "object"
           /\ DOMAIN body.v = {"product", "type", "discounts"}
           /\ body.v["product"] = request.product
           /\ body.v["type"] = request.type
           /\ body.v["discounts"] = request.discounts

C5_Witness ==
    /\ tool = "calculateInterestRate"
    /\ sent # << >>
    /\ request.inactive.v
    /\ Len(request.discounts.v) = 2

(***************************************************************************)
(* C6.  The upstream URL of calculateInterestRate carries inactive=true    *)
(* exactly when the validated flag is true; when the flag is false or was  *)
(* left out the URL has no query at all.                                   *)
(***************************************************************************)
C6_InactiveQueryOnlyWhenTrue ==
    (tool = "calculateInterestRate" /\ sent # << >>) =>
        /\ request.inactive.t = "boolean"
        /\ IF request.inactive.v
           THEN /\ url.searchParams = << <<InactiveParam, TrueValue>> >>
                /\ sent[1].url = InterestRateUrl \o "?inactive=true"
           ELSE /\ url.searchParams = << >>
                /\ sent[1].url = InterestRateUrl
        /\ ~Has(args, "inactive") => sent[1].url = InterestRateUrl

C6_Witness ==
    /\ tool = "calculateInterestRate"
    /\ sent # << >>
    /\ request.inactive.v
    /\ sent[1].url = InterestRateUrl \o "?inactive=true"

(***************************************************************************)
(* C7.  The upstream URL of calculateMaximumMortgage has mainIncome        *)
(* always, followed by partnerIncome exactly when the caller supplied it   *)
(* (0 counts as supplied).  Each value is the number's toString() in       *)
(* application/x-www-form-urlencoded form: plain decimal digits stay as    *)
(* they are (50000 and 30000 give ?mainIncome=50000&partnerIncome=30000),  *)
(* and the + of an exponent is sent as %2B (1e21 gives mainIncome=1e%2B21).*)
(***************************************************************************)
C7_ParamNames == [i \in 1..Len(url.searchParams) |-> url.searchParams[i][1]]

C7_Supplied == Has(args, "partnerIncome")

\* the characters one after the other, nothing encoded
RECURSIVE C7_Literal(_)
C7_Literal(chars) ==
    IF chars = << >> THEN "" ELSE Head(chars) \o C7_Literal(Tail(chars))

\* the text of an income on the wire
C7_MainIncomeText ==
    LET main == args.v["mainIncome"]
    IN CASE main = Num(0) -> "0"
         [] main = Num(50000) -> "50000"
         [] main = Exp10(<<1>>, 21) -> "1e%2B21"

C7_PartnerIncomeText ==
    LET partner == args.v["partnerIncome"]
    IN CASE partner = Num(0) -> "0"
         [] partner = Num(30000) -> "30000"
         [] partner = Exp10(<<1, 5>>, 22) -> "1.5e%2B22"

C7_NamesAndMethod ==
    /\ sent[1].method = "GET"
    /\ C7_ParamNames =
          IF C7_Supplied THEN <<MainIncomeParam, PartnerIncomeParam>>
          ELSE <<MainIncomeParam>>
    /\ C7_Literal(MainIncomeParam) = "mainIncome"
    /\ C7_Literal(PartnerIncomeParam) = "partnerIncome"

C7_PartnerIncomeOnlyWhenSupplied ==
    (tool = "calculateMaximumMortgage" /\ sent # << >>) =>
        /\ C7_NamesAndMethod
        /\ sent[1].url =
              MaximumMortgageUrl \o "?mainIncome=" \o C7_MainIncomeText
              \o (IF C7_Supplied THEN "&partnerIncome=" \o C7_PartnerIncomeText
                  ELSE "")

C7_Witness ==
    /\ tool = "calculateMaximumMortgage"
    /\ sent # << >>
    /\ C7_Supplied
    /\ args.v["partnerIncome"] = Num(0)
    /\ args.v["mainIncome"] = Exp10(<<1>>, 21)
    /\ sent[1].url = MaximumMortgageUrl \o "?mainIncome=1e%2B21&partnerIncome=0"

\* C7 as first stated: both values appear in the URL as their literal
\* numeric string, the text toString() gives
C7_LiteralNumericStrings ==
    (tool = "calculateMaximumMortgage" /\ sent # << >>) =>
        /\ C7_NamesAndMethod
        /\ sent[1].url =
              MaximumMortgageUrl \o "?mainIncome="
              \o C7_Literal(NumberToString(args.v["mainIncome"]))
              \o (IF C7_Supplied
                  THEN "&partnerIncome="
                       \o C7_Literal(NumberToString(args.v["partnerIncome"]))
                  ELSE "")

(***************************************************************************)
(* C8.  getPropertyTransferTax never lets an exception out: for every      *)
(* input, a negative, missing or non-numeric housePrice included, the call *)
(* returns one envelope, a validation failure as success=false with a      *)
(* message.                                                                *)
(***************************************************************************)
C8_TransferTaxNeverThrows ==
    tool = "getPropertyTransferTax" =>
        /\ pc = "returned"
        /\ thrown.t = "undefined"
        /\ IsEnvelope(result)
        /\ ~Validated => IsFailure(result)

(***************************************************************************)
(* C9.  For every non-negative housePrice getPropertyTransferTax returns   *)
(* success=true with taxQuota = housePrice * 0.02, the product of the two  *)
(* doubles, above 525000 and 0 otherwise: 525000 gives 0, 600000 gives     *)
(* 12000, 525015 gives 10500.300000000001.  The product is 2% of the price *)
(* to the cent, and is exactly 2% wherever that is a whole number.         *)
(***************************************************************************)
C9_TaxQuota == Document(result).v["data"].v["taxQuota"]

\* 100 * x rounded to the nearest whole number
C9_Cents(x) ==
    IF "v" \in DOMAIN x THEN 100 * x.v
    ELSE LET below == 0 - x.exp
             half == BitsLimbs([i \in 1..below |-> IF i = below THEN 1 ELSE 0])
             scaled == AddLimbs(MulLimbs(Limbs(100), BitsLimbs(x.bits)), half, 0)
         IN BitsNat([i \in 1..(BitLen(scaled) - below) |-> Bit(scaled, below + i)])

\* the products that are not whole, as 525001 * 0.02 = 10500.02,
\* 525015 * 0.02 = 10500.300000000001, 525025 * 0.02 = 10500.5 and
\* 525040 * 0.02 = 10500.800000000001 come out in doubles
C9_Product(price) ==
    CASE price = 525001 ->
          [t |-> "number", exp |-> 0 - 38,
          bits |-> <<1, 1, 0, 1, 1, 1, 1, 0, 0, 0, 1, 0, 1, 0, 0, 0, 0, 1, 1, 1,
                    0, 1, 0, 1, 1, 1, 1, 0, 0, 0, 1, 0, 1, 0, 0, 0, 0, 0, 0, 0,
                    1, 0, 0, 0, 0, 0, 1, 0, 0, 1, 0, 1>>]
      [] price = 525015 ->
          [t |-> "number", exp |-> 0 - 39,
          bits |-> <<1, 1, 1, 0, 0, 1, 1, 0, 0, 1, 1, 0, 0, 1, 1, 0, 0, 1, 1, 0,
                    0, 1, 1, 0, 0, 1, 1, 0, 0, 1, 1, 0, 0, 1, 1, 0, 0, 1, 0, 0,
                    0, 1, 0, 0, 0, 0, 0, 1, 0, 0, 1, 0, 1>>]
      [] price = 525025 ->
          [t |-> "number", exp |-> 0 - 1,
          bits |-> <<1, 0, 0, 1, 0, 0, 0, 0, 0, 1, 0, 0, 1, 0, 1>>]
      [] price = 525040 ->
          [t |-> "number", exp |-> 0 - 39,
          bits |-> <<1, 1, 1, 0, 0, 1, 1, 0, 0, 1, 1, 0, 0, 1, 1, 0, 0, 1, 1, 0,
                    0, 1, 1, 0, 0, 1, 1, 0, 0, 1, 1, 0, 0, 1, 1, 0, 0, 1, 1, 0,
                    0, 1, 0, 0, 0, 0, 0, 1, 0, 0, 1, 0, 1>>]

C9_TaxAboveCapOnly ==
    (tool = "getPropertyTransferTax" /\ Validated) =>
        LET price == args.v["housePrice"].v
        IN /\ pc = "returned"
           /\ Succeeded(result)
           /\ C9_TaxQuota.t = "number"
           /\ IF price > 525000
              THEN /\ C9_Cents(C9_TaxQuota) = 2 * price
                   /\ IF price % 50 = 0
                      THEN "v" \in DOMAIN C9_TaxQuota /\ 50 * C9_TaxQuota.v = price
                      ELSE C9_TaxQuota = C9_Product(price)
              ELSE C9_TaxQuota = Num(0)
           /\ price = 525000 => C9_TaxQuota = Num(0)
           /\ price = 600000 => C9_TaxQuota = Num(12000)

C9_Witness ==
    /\ tool = "getPropertyTransferTax"
    /\ pc = "returned"
    /\ Validated
    /\ args.v["housePrice"].v = 525015
    /\ C9_TaxQuota.t = "number"
    /\ "bits" \in DOMAIN C9_TaxQuota
    /\ C9_Cents(C9_TaxQuota) = 1050030

(***************************************************************************)
(* C10.  In a success envelope of calculateInterestRate or                 *)
(* calculateMaximumMortgage data.requestParameters equals the validated,   *)
(* defaulted request and not the raw argument: discounts left out are      *)
(* echoed as [], inactive left out as false, and partnerIncome left out    *)
(* stays absent.                                                           *)
(***************************************************************************)
C10_Echo == Document(result).v["data"].v["requestParameters"]

C10_EchoesValidatedRequest ==
    (tool \in NetworkTools /\ pc = "returned" /\ Succeeded(result)) =>
        /\ C10_Echo.t = "object"
        /\ tool = "calculateInterestRate" =>
              /\ DOMAIN C10_Echo.v = {"product", "type", "discounts", "inactive"}
              /\ C10_Echo.v["product"] = request.product
              /\ C10_Echo.v["type"] = request.type
              /\ C10_Echo.v["discounts"] = InterestRateRequestSchema(args).value.discounts
              /\ C10_Echo.v["inactive"] = InterestRateRequestSchema(args).value.inactive
              /\ ~Has(args, "discounts") => C10_Echo.v["discounts"] = Arr(<< >>)
              /\ ~Has(args, "inactive") => C10_Echo.v["inactive"] = Bool(FALSE)
        /\ tool = "calculateMaximumMortgage" =>
              /\ C10_Echo.v["mainIncome"] = args.v["mainIncome"]
              /\ IF Has(args, "partnerIncome")
                 THEN /\ DOMAIN C10_Echo.v = {"mainIncome", "partnerIncome"}
                      /\ C10_Echo.v["partnerIncome"] = args.v["partnerIncome"]
                 ELSE DOMAIN C10_Echo.v = {"mainIncome"}

\* a success whose echo differs from the raw argument: the defaults filled in
C10_Witness ==
    /\ tool = "calculateInterestRate"
    /\ pc = "returned"
    /\ Succeeded(result)
    /\ DOMAIN args.v = {"product", "type"}
    /\ C10_Echo.v["discounts"] = Arr(<< >>)
    /\ C10_Echo.v["inactive"] = Bool(FALSE)

(***************************************************************************)
(* C11.  On a 2xx interest-rate answer the output keeps one period per     *)
(* provider period, in the provider's order, and for a period whose        *)
(* duration is a whole number of months >= 0 durationInYears is            *)
(* round(duration / 12 * 10) / 10: the years to one decimal, halves        *)
(* rounded up (120 gives 10, 125 gives 10.4, 3 gives 0.3).                 *)
(***************************************************************************)
\* a number of the output, in tenths
C11_Tenths(x) == IF "v" \in DOMAIN x THEN 10 * x.v ELSE x.n

C11_ProviderPeriods(data) ==
    IF Has(data, "periods") /\ data.v["periods"].t = "array"
    THEN data.v["periods"].v ELSE << >>

C11_WholeMonths(d) == d.t = "number" /\ "v" \in DOMAIN d /\ d.v >= 0

C11_DurationInYearsRounded ==
    [][\A data \in InterestRateBodies :
          (InterestRateJsonResolved(data) /\ Succeeded(result')) =>
             LET provided == C11_ProviderPeriods(data)
                 out == Document(result').v["data"].v["periods"]
             IN /\ out.t = "array"
                /\ Len(out.v) = Len(provided)
                /\ \A i \in 1..Len(provided) :
                      LET d == Get(provided[i], "duration")
                          years == out.v[i].v["durationInYears"]
                      IN C11_WholeMonths(d) =>
                            /\ out.v[i].v["duration"] = d
                            /\ years.t = "number"
                            /\ ("v" \in DOMAIN years) \/ years.d = 10
                            \* tenths - 1/2 <= 10 * d / 12 < tenths + 1/2
                            /\ 12 * C11_Tenths(years) - 6 <= 10 * d.v
                            /\ 10 * d.v < 12 * C11_Tenths(years) + 6
                            /\ d.v = 120 => years = Num(10)
                            /\ d.v = 125 => C11_Tenths(years) = 104
                            /\ d.v = 3 => C11_Tenths(years) = 3]_vars

C11_OutputPeriods == Document(result).v["data"].v["periods"].v

\* two periods, 125 months before 120 months, came back in that order
C11_Witness ==
    /\ tool = "calculateInterestRate"
    /\ pc = "returned"
    /\ Succeeded(result)
    /\ Len(C11_OutputPeriods) = 2
    /\ \A i \in 1..2 : C11_WholeMonths(Get(C11_OutputPeriods[i], "duration"))
    /\ C11_OutputPeriods[1].v["duration"] = Num(125)
    /\ C11_Tenths(C11_OutputPeriods[1].v["durationInYears"]) = 104
    /\ C11_OutputPeriods[2].v["duration"] = Num(120)
    /\ C11_OutputPeriods[2].v["durationInYears"] = Num(10)

(***************************************************************************)
(* C12.  On a 2xx maximum-mortgage answer data.maximumMortgage,            *)
(* data.monthlyPayment and data.interest each equal the provider's         *)
(* value.maximumMortgage, value.monthlyPayment and value.interest whenever *)
(* the provider supplied the field, for every number from 0 upward, and    *)
(* are null exactly when the field or the whole value record is absent.    *)
(***************************************************************************)
C12_Fields == {"maximumMortgage", "monthlyPayment", "interest"}

C12_MortgageFieldsPassThrough ==
    [][\A data \in MaximumMortgageBodies :
          (MaximumMortgageJsonResolved(data) /\ Succeeded(result')) =>
             \A k \in C12_Fields :
                LET supplied == OptGet(Get(data, "value"), k)
                    out == Get(Get(Document(result'), "data"), k)
                IN IF supplied.t = "undefined"
                   THEN out.t = "null"
                   ELSE out.t = supplied.t /\ out = supplied]_vars

====
